---- MODULE Spec2Model ----
(***************************************************************************)
(* State-machine model of streamlit_app.py: the ResearchAssistant agent    *)
(* loop (process_research_query / handle_tool_use), its search client      *)
(* (web_search with its cache), the result formatter, reset_conversation   *)
(* and the module-level Streamlit script that drives them.                 *)
(*                                                                         *)
(* A conversation turn is a record [role, content].  Python stores either  *)
(* a plain string or a list of blocks in "content"; here a plain string s  *)
(* is written as the one-block list <<[type |-> "text", text |-> s]>>,     *)
(* which keeps "content" one type.  Tool turns are the block lists the     *)
(* code builds.                                                            *)
(***************************************************************************)
EXTENDS Integers, Sequences, FiniteSets, TLC

VARIABLES
    anthropic_api_key,      \* sidebar text input of the current script run
    brave_api_key,          \* sidebar text input of the current script run
    reset_pressed,          \* st.button("Reset Conversation") of the current run
    session_keys,           \* keys present in st.session_state
    messages,               \* st.session_state.messages
    conversation_history,   \* assistant.conversation_history
    search_results_cache,   \* assistant.search_results_cache
    pc,                     \* "Idle" | "AwaitingModel" | "Terminated"
    user_query,             \* parameter of the running process_research_query
    iterations,             \* loop counter of process_research_query
    response,               \* last model response (read after the loop)
    result,                 \* value process_research_query returns
    raised,                 \* exception kind caught by the running invocation
    crashed,                \* the script run died on an uncaught exception
    histStart,              \* Len(conversation_history) when the invocation began
    modelCalls,             \* model-API calls issued by the current invocation
    searchCalls,            \* web_search dispatches of the current invocation
    lastSearch,             \* how the current iteration's web_search ended
    netCalls,               \* provider requests issued, per (query, count) pair
    okCalls,                \* provider requests that filled the cache, per pair
    queries,                \* prompts submitted so far in the session
    toolTurns,              \* tool-use responses acted on so far in the session
    call,                   \* a single function call studied on its own: its arguments
    returned                \* the value that call returned

vars == <<anthropic_api_key, brave_api_key, reset_pressed, session_keys, messages,
          conversation_history, search_results_cache, pc, user_query, iterations,
          response, result, raised, crashed, histStart, modelCalls, searchCalls,
          lastSearch, netCalls, okCalls, queries, toolTurns, call, returned>>

(***************************************************************************)
(* Bounds of the model and constants of the program.                       *)
(***************************************************************************)
\* prompts a user submits in one session
MaxQueries == 2
\* tool-use responses the model provider gives in one session
MaxToolTurns == 2

\* items in a result list handed to a function studied on its own
MaxResults == 3
\* largest explicit num_results handed to web_search studied on its own
MaxCount == 3

\* round trips a single invocation is followed for; beyond the cap of the
\* loop, so that the cap and not this bound is what ends an invocation
MaxRoundTrips == 6

\* a cap of six round trips
max_iterations_six == 5 + 1

\* max_iterations = 5
max_iterations == 5
\* num_results default of web_search / tool_input.get("num_results", 5)
DefaultNumResults == 5

NoResultsSentinel == "No search results found."

\* Python dict.get(key, default)
Get(d, key, default) == IF key \in DOMAIN d THEN d[key] ELSE default

\* the slice taken from the end of the list, xs[-n:]
SliceFromEnd(xs, n) ==
    LET m == IF n < Len(xs) THEN n ELSE Len(xs)
    IN  SubSeq(xs, Len(xs) - m + 1, Len(xs))

\* Python list slice xs[:n]
SliceTo(xs, n) ==
    LET m == IF n >= 0 THEN (IF n < Len(xs) THEN n ELSE Len(xs))
                       ELSE (IF Len(xs) + n > 0 THEN Len(xs) + n ELSE 0)
    IN  SubSeq(xs, 1, m)

(***************************************************************************)
(* Search provider: what one GET to the search endpoint can do.            *)
(***************************************************************************)
Item1 == [title |-> "T1", url |-> "u1", description |-> "d1"]
\* an item the provider sends without a description
Item2 == [title |-> "T2", url |-> "u2"]

\* decoded JSON bodies of a 2xx response
ProviderBodies ==
    { [type |-> "search"],
      [type |-> "search", web |-> [type |-> "search"]],
      [type |-> "search", web |-> [results |-> <<>>]],
      [type |-> "search", web |-> [results |-> <<Item1, Item2>>]] }

\* requests.get / raise_for_status / response.json raising, or a decoded body
ProviderOutcomes ==
    { [kind |-> "error"] } \cup { [kind |-> "json", body |-> b] : b \in ProviderBodies }

\* no request is sent (cache hit)
NoRequest == [kind |-> "none"]

(***************************************************************************)
(* ResearchAssistant.web_search                                            *)
(***************************************************************************)
\* cache_key = f"{query}_{num_results}"
cache_key(query, num_results) == query \o "_" \o ToString(num_results)

\* one item of results["web"]["results"], with the .get defaults
ProcessItem(item) ==
    [title |-> Get(item, "title", ""),
     url |-> Get(item, "url", ""),
     description |-> Get(item, "description", "")]

\* the body of the try block once the JSON is decoded
ProcessResults(body, num_results) ==
    IF "web" \in DOMAIN body /\ "results" \in DOMAIN body.web
    THEN LET items == SliceTo(body.web.results, num_results)
         IN  [i \in 1..Len(items) |-> ProcessItem(items[i])]
    ELSE <<>>

\* web_search without the cache lookup of lines 39-40: every call fetches
web_search_refetch(query, num_results, cache, p) ==
    LET key == cache_key(query, num_results) IN
    IF p.kind = "json"
    THEN LET processed_results == ProcessResults(p.body, num_results)
         IN  [results |-> processed_results,
              cache |-> (key :> processed_results) @@ cache,
              outcome |-> "ok", raises |-> FALSE]
    ELSE [results |-> <<>>, cache |-> cache, outcome |-> "error", raises |-> FALSE]

\* web_search whose except branch stores the empty list it returns
web_search_caches_failure(query, num_results, cache, p) ==
    LET key == cache_key(query, num_results) IN
    IF key \in DOMAIN cache
    THEN [results |-> cache[key], cache |-> cache, outcome |-> "hit", raises |-> FALSE]
    ELSE IF p.kind = "json"
    THEN LET processed_results == ProcessResults(p.body, num_results)
         IN  [results |-> processed_results,
              cache |-> (key :> processed_results) @@ cache,
              outcome |-> "ok", raises |-> FALSE]
    ELSE [results |-> <<>>, cache |-> (key :> <<>>) @@ cache, outcome |-> "error",
          raises |-> FALSE]

\* web_search without the try/except of lines 54-78: a provider failure
\* leaves the function as an exception
web_search_unguarded(query, num_results, cache, p) ==
    LET key == cache_key(query, num_results) IN
    IF key \in DOMAIN cache
    THEN [results |-> cache[key], cache |-> cache, outcome |-> "hit", raises |-> FALSE]
    ELSE IF p.kind = "json"
    THEN LET processed_results == ProcessResults(p.body, num_results)
         IN  [results |-> processed_results,
              cache |-> (key :> processed_results) @@ cache,
              outcome |-> "ok", raises |-> FALSE]
    ELSE [results |-> <<>>, cache |-> cache, outcome |-> "error", raises |-> TRUE]

\* web_search(query, num_results) on cache `cache` when the provider answers p.
\* outcome: "hit" (cache), "ok" (fetched and cached), "error" (except branch)
web_search(query, num_results, cache, p) ==
    LET key == cache_key(query, num_results) IN
    IF key \in DOMAIN cache
    THEN [results |-> cache[key], cache |-> cache, outcome |-> "hit", raises |-> FALSE]
    ELSE IF p.kind = "json"
    THEN LET processed_results == ProcessResults(p.body, num_results)
         IN  [results |-> processed_results,
              cache |-> (key :> processed_results) @@ cache,
              outcome |-> "ok", raises |-> FALSE]
    ELSE [results |-> <<>>, cache |-> cache, outcome |-> "error", raises |-> FALSE]

(***************************************************************************)
(* ResearchAssistant.format_search_results                                 *)
(***************************************************************************)
\* the entries numbered by enumerate(results), from 0
RECURSIVE FormatEntriesFromZero(_, _)
FormatEntriesFromZero(results, i) ==
    IF i > Len(results) THEN ""
    ELSE ToString(i - 1) \o ". **" \o results[i].title \o "**\n"
         \o "   URL: " \o results[i].url \o "\n"
         \o "   " \o results[i].description \o "\n\n"
         \o FormatEntriesFromZero(results, i + 1)

RECURSIVE FormatEntries(_, _)
FormatEntries(results, i) ==
    IF i > Len(results) THEN ""
    ELSE ToString(i) \o ". **" \o results[i].title \o "**\n"
         \o "   URL: " \o results[i].url \o "\n"
         \o "   " \o results[i].description \o "\n\n"
         \o FormatEntries(results, i + 1)

format_search_results(results) ==
    IF results = <<>> THEN NoResultsSentinel
    ELSE "### Search Results:\n\n" \o FormatEntries(results, 1)


(***************************************************************************)
(* Model provider: what one messages.create call can return or raise.      *)
(***************************************************************************)
TextBlock(t) == [type |-> "text", text |-> t]
ToolUseBlock(id, name, input) ==
    [type |-> "tool_use", id |-> id, name |-> name, input |-> input]

\* the text of a text block standing at position j of a content list
TextAt(j) == IF j = 1 THEN "A" ELSE "B"
\* input objects of a web_search call (num_results is optional in the schema)
ToolInputs == { [query |-> "a"], [query |-> "a", num_results |-> 1] }
\* a tool the registry does not declare
OtherTool == "calculator"

\* the provider's identifier of the j-th block of its answer to a request
\* carrying history h: identifiers never repeat within one conversation
ToolUseId(h, j) == "toolu_" \o ToString(Len(h)) \o "_" \o ToString(j)

\* the blocks that can stand at position j of such an answer, when the
\* model draws its web_search inputs from `inputs`
BlocksAt(h, j, inputs) ==
    { TextBlock(TextAt(j)) }
    \cup { ToolUseBlock(ToolUseId(h, j), "web_search", i) : i \in inputs }
    \cup { ToolUseBlock(ToolUseId(h, j), OtherTool, [expression |-> "1+1"]) }

\* content lists of at most one block
ShortContents(h, inputs) ==
    { <<>> } \cup { <<b>> : b \in BlocksAt(h, 1, inputs) }

\* content lists of up to two blocks
Contents(h, inputs) ==
    ShortContents(h, inputs)
    \cup { <<b1, b2>> : b1 \in BlocksAt(h, 1, inputs), b2 \in BlocksAt(h, 2, inputs) }

StopReasons == {"tool_use", "end_turn"}

\* the answers of a model that sends at most one block
ShortResponses(h, inputs) ==
    { [stop_reason |-> s, content |-> c] : s \in StopReasons, c \in ShortContents(h, inputs) }

\* the answers of a model that sends up to two blocks
Responses(h, inputs) ==
    { [stop_reason |-> s, content |-> c] : s \in StopReasons, c \in Contents(h, inputs) }

\* `response` before the first model call of an invocation
NoResponse == [stop_reason |-> "none", content |-> <<>>]

\* exceptions a model call can raise, by the except clause that catches them
ErrorKinds == {"APIError", "RequestException", "Exception"}
\* str(e)
ErrorTexts == {"overloaded"}

\* error_msg of the three except clauses
ErrorMsg(kind, text) ==
    IF kind = "APIError" THEN "Anthropic API Error: " \o text
    ELSE IF kind = "RequestException" THEN "Network Error: " \o text
    ELSE "Unexpected Error: " \o text

(***************************************************************************)
(* process_research_query: handle_tool_use, the loop and the final text    *)
(***************************************************************************)
UserTurn(text) == [role |-> "user", content |-> <<TextBlock(text)>>]
AssistantTurn(text) == [role |-> "assistant", content |-> <<TextBlock(text)>>]
ToolUseTurn(b) ==
    [role |-> "assistant",
     content |-> <<[type |-> "tool_use", id |-> b.id, name |-> b.name, input |-> b.input]>>]
\* the tool result sent back in an assistant turn
ToolResultTurnAsAssistant(tool_id, formatted_results) ==
    [role |-> "assistant",
     content |-> <<[type |-> "tool_result", tool_use_id |-> tool_id,
                    content |-> formatted_results]>>]
ToolResultTurn(tool_id, formatted_results) ==
    [role |-> "user",
     content |-> <<[type |-> "tool_result", tool_use_id |-> tool_id,
                    content |-> formatted_results]>>]

\* the block handle_tool_use acts on: the first tool_use block named
\* web_search in the content list (0: the for loop runs out)
RECURSIVE ActedBlock(_, _)
ActedBlock(content, i) ==
    IF i > Len(content) THEN 0
    ELSE IF content[i].type = "tool_use" /\ content[i].name = "web_search" THEN i
    ELSE ActedBlock(content, i + 1)

\* the tool_result turn referring to the tool's name instead of the call's id
AppendToolPairByName(history, b, rs) ==
    Append(Append(history, ToolUseTurn(b)),
           ToolResultTurn(b.name, format_search_results(rs)))

\* the two turns handle_tool_use appends for block b and search results rs
AppendToolPair(history, b, rs) ==
    Append(Append(history, ToolUseTurn(b)),
           ToolResultTurn(b.id, format_search_results(rs)))

\* handle_tool_use(response) on history/cache when the search provider,
\* if asked, answers p.  used: the value returned.
handle_tool_use(content, history, cache, p) ==
    LET i == ActedBlock(content, 1) IN
    IF i = 0
    THEN [used |-> FALSE, history |-> history, cache |-> cache, results |-> <<>>,
          outcome |-> "none", key |-> "", raises |-> FALSE]
    ELSE LET tool_input == content[i].input
             query == Get(tool_input, "query", "")
             num_results == Get(tool_input, "num_results", DefaultNumResults)
             ws == web_search(query, num_results, cache, p)
         IN  [used |-> TRUE,
              history |-> IF ws.raises THEN history
                          ELSE AppendToolPair(history, content[i], ws.results),
              cache |-> ws.cache,
              results |-> ws.results,
              outcome |-> ws.outcome,
              key |-> cache_key(query, num_results),
              raises |-> ws.raises]

\* a loop without a cap: while True
LoopContinuesAlways(n) == TRUE

\* the loop test written with <=
LoopContinuesInclusive(n) == n <= max_iterations

\* while iterations < max_iterations
LoopContinues(n) == n < max_iterations

\* final_text: the text blocks of the last response, concatenated in order
RECURSIVE FinalText(_, _)
FinalText(content, i) ==
    IF i > Len(content) THEN ""
    ELSE (IF content[i].type = "text" THEN content[i].text ELSE "")
         \o FinalText(content, i + 1)

\* the final turn appended even when the text is empty
AppendFinalAlways(history, final_text) == Append(history, AssistantTurn(final_text))

\* the final turn appended a second time
AppendFinalTwice(history, final_text) ==
    IF final_text # ""
    THEN Append(Append(history, AssistantTurn(final_text)), AssistantTurn(final_text))
    ELSE history

\* "if final_text: append"
AppendFinal(history, final_text) ==
    IF final_text # "" THEN Append(history, AssistantTurn(final_text)) ELSE history

\* a reset that rebuilds the whole assistant state, cache included
reset_everything(history, cache) ==
    [conversation_history |-> <<>>, search_results_cache |-> <<>>]

\* reset_conversation: the assistant's two fields after the call
reset_conversation(history, cache) ==
    [conversation_history |-> <<>>, search_results_cache |-> cache]


(***************************************************************************)
(* The Streamlit script (module level): one run per user interaction.      *)
(***************************************************************************)
\* values a sidebar key input can hold
KeyValues == {"", "key"}
\* what st.chat_input returns: None, or the prompt submitted
NoPrompt == "<none>"
Prompts == {"p"}

\* the key check written with "and"
KeysBothMissing(a, b) == a = "" /\ b = ""

\* "if not anthropic_api_key or not brave_api_key"
KeysMissing(a, b) == a = "" \/ b = ""

\* "if k in st.session_state", the guard of each reset statement
InSession(keys, k) == k \in keys

NoSearch == [outcome |-> "none", key |-> "", results |-> <<>>]

LocalsCleared ==
    /\ user_query' = ""
    /\ iterations' = 0
    /\ response' = NoResponse
    /\ result' = ""
    /\ raised' = "none"
    /\ histStart' = 0
    /\ modelCalls' = 0
    /\ searchCalls' = 0
    /\ lastSearch' = NoSearch

\* no function call is studied on its own
NoCall == [fn |-> "none"]
NoReturn == [done |-> FALSE]

\* the session before the first run of the script
Blank ==
    /\ anthropic_api_key = ""
    /\ brave_api_key = ""
    /\ reset_pressed = FALSE
    /\ session_keys = {}
    /\ messages = <<>>
    /\ conversation_history = <<>>
    /\ search_results_cache = <<>>
    /\ pc = "Idle"
    /\ user_query = ""
    /\ iterations = 0
    /\ response = NoResponse
    /\ result = ""
    /\ raised = "none"
    /\ crashed = FALSE
    /\ histStart = 0
    /\ modelCalls = 0
    /\ searchCalls = 0
    /\ lastSearch = NoSearch
    /\ netCalls = <<>>
    /\ okCalls = <<>>
    /\ queries = 0
    /\ toolTurns = 0

Init == Blank /\ call = NoCall /\ returned = NoReturn

\* One run of the script: the sidebar (keys a, b; reset button btn), the key
\* check, the construction of the assistant and, when a prompt was
\* submitted, the call of process_research_query up to its first model call.
Rerun(a, b, btn, prompt) ==
    /\ pc = "Idle"
    /\ prompt # NoPrompt => queries < MaxQueries
    /\ anthropic_api_key' = a
    /\ brave_api_key' = b
    /\ reset_pressed' = btn
    /\ UNCHANGED <<netCalls, okCalls, toolTurns, call, returned>>
    /\ LET \* lines 263-268: each reset statement behind its guard; reading
           \* a key st.session_state does not hold raises
           resetsM == btn /\ InSession(session_keys, "messages")
           resetsA == btn /\ InSession(session_keys, "assistant")
           dies == \/ resetsM /\ "messages" \notin session_keys
                   \/ resetsA /\ "assistant" \notin session_keys
           msgs1 == IF resetsM THEN <<>> ELSE messages
           assistant1 ==
               IF resetsA
               THEN reset_conversation(conversation_history, search_results_cache)
               ELSE [conversation_history |-> conversation_history,
                     search_results_cache |-> search_results_cache]
           hist1 == assistant1.conversation_history
       IN
       IF dies
       THEN /\ crashed' = TRUE
            /\ UNCHANGED <<session_keys, messages, conversation_history,
                           search_results_cache, pc, queries>>
            /\ LocalsCleared
       ELSE
         /\ crashed' = FALSE
         /\ search_results_cache' = assistant1.search_results_cache
         /\ IF KeysMissing(a, b)
            THEN \* lines 271-279
                 /\ messages' = msgs1
                 /\ conversation_history' = hist1
                 /\ UNCHANGED <<session_keys, pc, queries>>
                 /\ LocalsCleared
            ELSE \* lines 281-287
                 /\ session_keys' = session_keys \cup {"assistant", "messages"}
                 /\ IF prompt = NoPrompt
                    THEN /\ messages' = msgs1
                         /\ conversation_history' = hist1
                         /\ UNCHANGED <<pc, queries>>
                         /\ LocalsCleared
                    ELSE \* lines 295-303 and 116-181
                         /\ messages' = Append(msgs1, [role |-> "user", content |-> prompt])
                         /\ conversation_history' = Append(hist1, UserTurn(prompt))
                         /\ pc' = "AwaitingModel"
                         /\ queries' = queries + 1
                         /\ user_query' = prompt
                         /\ iterations' = 0
                         /\ response' = NoResponse
                         /\ result' = ""
                         /\ raised' = "none"
                         /\ histStart' = Len(hist1)
                         /\ modelCalls' = 0
                         /\ searchCalls' = 0
                         /\ lastSearch' = NoSearch

\* The code after the loop: final_text, its append and the return.
Finish(r, history) ==
    LET final_text == FinalText(r.content, 1) IN
    /\ conversation_history' = AppendFinal(history, final_text)
    /\ result' = final_text
    /\ response' = r
    /\ raised' = "none"
    /\ pc' = "Terminated"

\* The caught exception: error_msg is returned.
Fail(kind, text) ==
    /\ result' = ErrorMsg(kind, text)
    /\ raised' = kind
    /\ pc' = "Terminated"

\* a failed model call retried while the cap allows
ModelFailsRetried(kind, text) ==
    /\ pc = "AwaitingModel"
    /\ iterations' = iterations + 1
    /\ modelCalls' = modelCalls + 1
    /\ result' = ErrorMsg(kind, text)
    /\ raised' = kind
    /\ pc' = IF LoopContinues(iterations + 1) THEN "AwaitingModel" ELSE "Terminated"
    /\ lastSearch' = NoSearch
    /\ UNCHANGED <<anthropic_api_key, brave_api_key, reset_pressed, session_keys,
                   messages, conversation_history, search_results_cache, user_query,
                   response, crashed, histStart, searchCalls, netCalls, okCalls,
                   queries, toolTurns, call, returned>>

\* a failed model call that drops the turns of the failed query
ModelFailsRollback(kind, text) ==
    /\ pc = "AwaitingModel"
    /\ iterations' = iterations + 1
    /\ modelCalls' = modelCalls + 1
    /\ Fail(kind, text)
    /\ lastSearch' = NoSearch
    /\ conversation_history' = SubSeq(conversation_history, 1, histStart)
    /\ UNCHANGED <<anthropic_api_key, brave_api_key, reset_pressed, session_keys,
                   messages, search_results_cache, user_query,
                   response, crashed, histStart, searchCalls, netCalls, okCalls,
                   queries, toolTurns, call, returned>>

\* One loop iteration whose model call raises.
ModelFails(kind, text) ==
    /\ pc = "AwaitingModel"
    /\ iterations' = iterations + 1
    /\ modelCalls' = modelCalls + 1
    /\ Fail(kind, text)
    /\ lastSearch' = NoSearch
    /\ UNCHANGED <<anthropic_api_key, brave_api_key, reset_pressed, session_keys,
                   messages, conversation_history, search_results_cache, user_query,
                   response, crashed, histStart, searchCalls, netCalls, okCalls,
                   queries, toolTurns, call, returned>>

\* an iteration that tests the cap before it looks at the tool request: the
\* request of the last iteration is dropped
ModelRespondsCapFirst(r, p) ==
    /\ pc = "AwaitingModel"
    /\ iterations' = iterations + 1
    /\ modelCalls' = modelCalls + 1
    /\ UNCHANGED <<anthropic_api_key, brave_api_key, reset_pressed, session_keys,
                   messages, user_query, crashed, histStart, queries, call, returned>>
    /\ IF r.stop_reason = "tool_use" /\ LoopContinues(iterations + 1)
       THEN LET h == handle_tool_use(r.content, conversation_history,
                                     search_results_cache, p)
                sent == h.outcome \in {"ok", "error"}
            IN
            /\ toolTurns' = IF h.used THEN toolTurns + 1 ELSE toolTurns
            /\ searchCalls' = IF h.used THEN searchCalls + 1 ELSE searchCalls
            /\ search_results_cache' = h.cache
            /\ lastSearch' = IF h.used
                             THEN [outcome |-> h.outcome, key |-> h.key,
                                   results |-> h.results]
                             ELSE NoSearch
            /\ netCalls' = IF sent THEN (h.key :> (Get(netCalls, h.key, 0) + 1)) @@ netCalls
                           ELSE netCalls
            /\ okCalls' = IF h.outcome = "ok"
                          THEN (h.key :> (Get(okCalls, h.key, 0) + 1)) @@ okCalls
                          ELSE okCalls
            /\ IF h.used
               THEN /\ conversation_history' = h.history
                    /\ response' = r
                    /\ UNCHANGED <<result, raised, pc>>
               ELSE Finish(r, h.history)
       ELSE /\ Finish(r, conversation_history)
            /\ lastSearch' = NoSearch
            /\ UNCHANGED <<search_results_cache, searchCalls, netCalls, okCalls, toolTurns>>

\* One loop iteration whose model call returns r; p is the search
\* provider's answer when the iteration sends it a request.
ModelResponds(r, p) ==
    /\ pc = "AwaitingModel"
    /\ iterations' = iterations + 1
    /\ modelCalls' = modelCalls + 1
    /\ UNCHANGED <<anthropic_api_key, brave_api_key, reset_pressed, session_keys,
                   messages, user_query, crashed, histStart, queries, call, returned>>
    /\ IF r.stop_reason = "tool_use"
       THEN LET h == handle_tool_use(r.content, conversation_history,
                                     search_results_cache, p)
                sent == h.outcome \in {"ok", "error"}
            IN
            /\ toolTurns' = IF h.used THEN toolTurns + 1 ELSE toolTurns
            /\ searchCalls' = IF h.used THEN searchCalls + 1 ELSE searchCalls
            /\ search_results_cache' = h.cache
            /\ lastSearch' = IF h.used
                             THEN [outcome |-> h.outcome, key |-> h.key,
                                   results |-> h.results]
                             ELSE NoSearch
            /\ netCalls' = IF sent THEN (h.key :> (Get(netCalls, h.key, 0) + 1)) @@ netCalls
                           ELSE netCalls
            /\ okCalls' = IF h.outcome = "ok"
                          THEN (h.key :> (Get(okCalls, h.key, 0) + 1)) @@ okCalls
                          ELSE okCalls
            /\ IF h.raises
               THEN /\ Fail("Exception", "search")
                    /\ conversation_history' = h.history
                    /\ response' = r
               ELSE IF h.used /\ LoopContinues(iterations + 1)
               THEN /\ conversation_history' = h.history
                    /\ response' = r
                    /\ UNCHANGED <<result, raised, pc>>
               ELSE Finish(r, h.history)
       ELSE /\ Finish(r, conversation_history)
            /\ lastSearch' = NoSearch
            /\ UNCHANGED <<search_results_cache, searchCalls, netCalls, okCalls, toolTurns>>

\* process_research_query returns to the script, which stores the answer
\* (line 307) and ends the run.
Return ==
    /\ pc = "Terminated"
    /\ messages' = Append(messages, [role |-> "assistant", content |-> result])
    /\ pc' = "Idle"
    /\ LocalsCleared
    /\ UNCHANGED <<anthropic_api_key, brave_api_key, reset_pressed, session_keys,
                   conversation_history, search_results_cache, crashed, netCalls,
                   okCalls, queries, toolTurns, call, returned>>

\* the provider answers an iteration can meet: a request is sent only when
\* the response makes handle_tool_use dispatch a search
ProviderChoices(r) ==
    IF r.stop_reason = "tool_use" /\ ActedBlock(r.content, 1) # 0
    THEN ProviderOutcomes ELSE {NoRequest}


\* the response makes handle_tool_use dispatch a search
Dispatches(r) == r.stop_reason = "tool_use" /\ ActedBlock(r.content, 1) # 0

\* A run is triggered by one widget: an edited key, the reset button or a
\* submitted prompt; the other widgets keep their values.
EditKeys == \E a \in KeyValues, b \in KeyValues : Rerun(a, b, FALSE, NoPrompt)
PressReset == Rerun(anthropic_api_key, brave_api_key, TRUE, NoPrompt)
SubmitPrompt == \E prompt \in Prompts : Rerun(anthropic_api_key, brave_api_key, FALSE, prompt)
\* the model call raises; in the session every handler is met through APIError
\* and the catch-all, in the single invocation of SpecLoop through all three
ModelError == \E kind \in {"APIError", "Exception"}, text \in ErrorTexts : ModelFails(kind, text)
ModelAnswer ==
    \E r \in ShortResponses(conversation_history, ToolInputs) :
        /\ Dispatches(r) => toolTurns < MaxToolTurns
        /\ \E p \in ProviderChoices(r) : ModelResponds(r, p)

Next == EditKeys \/ PressReset \/ SubmitPrompt \/ ModelError \/ ModelAnswer \/ Return

Spec == Init /\ [][Next]_vars


(***************************************************************************)
(* One invocation in depth: the keys come from the environment variables,  *)
(* one prompt is submitted, and the model may ask for a tool on every      *)
(* iteration, with answers of up to two blocks.                            *)
(***************************************************************************)
OpenWithKeys == session_keys = {} /\ Rerun("key", "key", FALSE, NoPrompt)
FirstPrompt ==
    /\ queries = 0
    /\ session_keys # {}
    /\ \E prompt \in Prompts : Rerun(anthropic_api_key, brave_api_key, FALSE, prompt)
AnyModelError ==
    /\ iterations < MaxRoundTrips
    /\ \E kind \in ErrorKinds, text \in ErrorTexts : ModelFails(kind, text)
LongAnswer ==
    /\ iterations < MaxRoundTrips
    /\ \E r \in Responses(conversation_history, {[query |-> "a", num_results |-> 1]}) :
          \E p \in ProviderChoices(r) : ModelResponds(r, p)

NextLoop == OpenWithKeys \/ FirstPrompt \/ AnyModelError \/ LongAnswer \/ Return

SpecLoop == Init /\ [][NextLoop]_vars

\* Every model call and every search it leads to returns or raises, and the
\* function, once past the loop, returns to the script.
SpecLoopFair ==
    /\ SpecLoop
    /\ WF_vars(AnyModelError \/ LongAnswer)
    /\ WF_vars(Return)


(***************************************************************************)
(* The two pure functions on their own: one call of format_search_results  *)
(* or of web_search on an empty cache, with arguments drawn at the start.  *)
(***************************************************************************)
\* sequences over S of length at most n
RECURSIVE SeqsUpTo(_, _)
SeqsUpTo(S, n) ==
    IF n = 0 THEN { <<>> }
    ELSE SeqsUpTo(S, n - 1)
         \cup { Append(q, x) : q \in { t \in SeqsUpTo(S, n - 1) : Len(t) = n - 1 }, x \in S }

\* num_results values: explicit ones and the default
Counts == 1..MaxCount \cup {DefaultNumResults}

FormatCalls ==
    { [fn |-> "format_search_results", results |-> rs] :
        rs \in SeqsUpTo({ProcessItem(Item1), ProcessItem(Item2)}, MaxResults) }

SearchCalls ==
    { [fn |-> "web_search", query |-> "a", num_results |-> n, p |-> p] :
        n \in Counts,
        p \in { [kind |-> "error"], [kind |-> "json", body |-> [type |-> "search"]] }
              \cup { [kind |-> "json", body |-> [type |-> "search", web |-> [results |-> l]]] :
                       l \in SeqsUpTo({Item1, Item2}, MaxResults) } }

InitPure == Blank /\ call \in FormatCalls \cup SearchCalls /\ returned = NoReturn

SessionUnchanged ==
    UNCHANGED <<anthropic_api_key, brave_api_key, reset_pressed, session_keys, messages,
                conversation_history, pc, user_query, iterations,
                response, result, raised, crashed, histStart, modelCalls, searchCalls,
                lastSearch, netCalls, okCalls, queries, toolTurns>>

CallFormat ==
    /\ call.fn = "format_search_results" /\ ~returned.done
    /\ returned' = [done |-> TRUE, value |-> format_search_results(call.results)]
    /\ UNCHANGED <<call, search_results_cache>>
    /\ SessionUnchanged

CallSearch ==
    /\ call.fn = "web_search" /\ ~returned.done
    /\ LET ws == web_search(call.query, call.num_results, search_results_cache, call.p)
       IN  /\ returned' = [done |-> TRUE, value |-> ws.results]
           /\ search_results_cache' = ws.cache
    /\ UNCHANGED call
    /\ SessionUnchanged

NextPure == CallFormat \/ CallSearch

SpecPure == InitPure /\ [][NextPure]_vars


(***************************************************************************)
(* Properties.                                                             *)
(***************************************************************************)
\* the text blocks of a content list, concatenated in order
RECURSIVE ConcatTexts(_)
ConcatTexts(content) ==
    IF content = <<>> THEN ""
    ELSE LET n == Len(content) IN
         ConcatTexts(SubSeq(content, 1, n - 1))
         \o (IF content[n].type = "text" THEN content[n].text ELSE "")

IsPrefix(s, t) == Len(s) <= Len(t) /\ SubSeq(t, 1, Len(s)) = s

\* the blocks of type ty in a turn
BlocksOf(turn, ty) ==
    { j \in 1..Len(turn.content) : turn.content[j].type = ty }

\* turn u holds exactly one block, a tool_use, and turn v answers it
IsToolPair(u, v) ==
    /\ u.role = "assistant" /\ Len(u.content) = 1 /\ u.content[1].type = "tool_use"
    /\ v.role = "user" /\ Len(v.content) = 1 /\ v.content[1].type = "tool_result"
    /\ v.content[1].tool_use_id = u.content[1].id

\* a turn of plain text
IsTextTurn(u, role, text) ==
    /\ u.role = role /\ Len(u.content) = 1
    /\ u.content[1].type = "text" /\ u.content[1].text = text

\* C1: one invocation of process_research_query issues at most 5 model-API
\* calls, whatever the model answers.
C1_AtMostFiveModelCalls == modelCalls <= 5

\* an invocation that used all five calls
C1_Witness == modelCalls = 5 /\ pc = "Terminated"

\* C2: in every state, and so whenever a model call is issued, every turn of
\* the history holding a tool_use block is an assistant turn immediately
\* followed by a user turn holding a tool_result block with that block's id.
C2_NoDanglingToolUse ==
    \A i \in 1..Len(conversation_history) :
        \A j \in BlocksOf(conversation_history[i], "tool_use") :
            /\ conversation_history[i].role = "assistant"
            /\ i < Len(conversation_history)
            /\ conversation_history[i + 1].role = "user"
            /\ \E m \in BlocksOf(conversation_history[i + 1], "tool_result") :
                   conversation_history[i + 1].content[m].tool_use_id
                       = conversation_history[i].content[j].id

\* the first model call of a second query, issued on a history that holds a
\* tool call of the first query
C2_Witness ==
    /\ pc = "AwaitingModel" /\ iterations = 0 /\ queries = 2
    /\ \E i \in 1..Len(conversation_history) :
           BlocksOf(conversation_history[i], "tool_use") # {}

\* C3 as stated: every cached (query, count) pair has issued exactly one
\* network call in the session.
C3_OneNetworkCallPerCachedPair ==
    \A k \in DOMAIN search_results_cache : netCalls[k] = 1

\* C3 amended: exactly one network call filled a cached pair's entry, and
\* from then on no step overwrites, evicts or expires the entry or issues
\* another network call for the pair, and every lookup of the pair returns
\* the cached result set.
C3_CachedPairNeverRefetched ==
    [][\A k \in DOMAIN search_results_cache :
          /\ k \in DOMAIN search_results_cache'
          /\ search_results_cache'[k] = search_results_cache[k]
          /\ netCalls'[k] = netCalls[k]
          /\ okCalls'[k] = 1
          /\ (searchCalls' = searchCalls + 1 /\ lastSearch'.key = k)
                => /\ lastSearch'.outcome = "hit"
                   /\ lastSearch'.results = search_results_cache[k]]_vars

\* a lookup served from the cache in the second query of the session
C3_Witness == lastSearch.outcome = "hit" /\ queries = 2

\* C4: an invocation that ends on a non-tool response with non-empty text
\* after k tool-using responses made k+1 model calls and k search
\* dispatches, returns that text, and has appended 2k+2 turns: the user
\* query, k (tool_use, tool_result) pairs and the final text, once.
C4_ToolRoundsThenFinal ==
    (pc = "Terminated" /\ raised = "none" /\ response.stop_reason # "tool_use"
        /\ result # "")
    => LET k == modelCalls - 1
           h == conversation_history
       IN  /\ k \in 0..4
           /\ searchCalls = k
           /\ result = ConcatTexts(response.content)
           /\ Len(h) = histStart + 2 * k + 2
           /\ IsTextTurn(h[histStart + 1], "user", user_query)
           /\ \A j \in 1..k : IsToolPair(h[histStart + 2 * j], h[histStart + 2 * j + 1])
           /\ IsTextTurn(h[Len(h)], "assistant", result)

\* four tool rounds, then a final answer on the fifth call
C4_Witness ==
    /\ pc = "Terminated" /\ raised = "none" /\ response.stop_reason # "tool_use"
    /\ result # "" /\ modelCalls = 5 /\ searchCalls = 4

\* C5: no model call is issued once five have been made, and an invocation
\* whose fifth response still asks for a tool ends there, returning the
\* concatenated text blocks of that fifth response.
C5_CapEndsOnFifthResponse ==
    /\ pc = "AwaitingModel" => modelCalls < 5
    /\ (modelCalls = 5 /\ raised = "none" /\ response.stop_reason = "tool_use")
       => /\ pc = "Terminated"
          /\ result = ConcatTexts(response.content)

\* five tool rounds, the fifth response carrying text beside its tool call
C5_Witness ==
    /\ pc = "Terminated" /\ modelCalls = 5 /\ searchCalls = 5
    /\ response.stop_reason = "tool_use" /\ result = "A"

\* C6: after a failed provider call web_search has returned the empty list,
\* the tool_result appended carries the no-results sentinel, nothing was
\* raised, and the loop goes on to the next model call unless the cap is
\* reached, in which case the invocation ends normally.
C6_SearchFailureContinues ==
    lastSearch.outcome = "error"
    => LET h == conversation_history
           n == IF pc = "Terminated" /\ result # "" THEN Len(h) - 1 ELSE Len(h)
       IN  /\ lastSearch.results = <<>>
           /\ raised = "none"
           /\ pc = (IF iterations < 5 THEN "AwaitingModel" ELSE "Terminated")
           /\ n >= 2
           /\ IsToolPair(h[n - 1], h[n])
           /\ h[n].content[1].content = "No search results found."

\* a failed search after which the loop waits for the next model call
C6_Witness == lastSearch.outcome = "error" /\ pc = "AwaitingModel"

\* C7: once a model call has failed the invocation is over: it makes no
\* further model call and no search, and it returns the error text
\* prefixed by the error kind.
C7_ModelFailureNotRetried ==
    raised # "none"
    => /\ pc = "Terminated"
       /\ lastSearch.outcome = "none"
       /\ ~crashed
       /\ \E t \in ErrorTexts :
              result = (IF raised = "APIError" THEN "Anthropic API Error: "
                        ELSE IF raised = "RequestException" THEN "Network Error: "
                        ELSE "Unexpected Error: ") \o t

\* a model call failing after a tool round of the same invocation
C7_Witness == raised = "APIError" /\ searchCalls = 1 /\ modelCalls = 2

\* C8: every step leaves the history it found as a prefix of the history it
\* leaves, except the run of the reset button, which empties it.
C8_HistoryAppendOnly ==
    [][\/ IsPrefix(conversation_history, conversation_history')
       \/ (reset_pressed' /\ conversation_history' = <<>>)]_vars

\* a second query failing on a history that holds the first query's turns
C8_Witness ==
    /\ raised # "none" /\ histStart > 0
    /\ Len(conversation_history) > histStart

\* C9: the run of the reset button does not die, leaves the history empty
\* and the search cache as it was, with or without an assistant in the
\* session; the query submitted next starts from that empty history, so its
\* first model call carries the query alone.
C9_ResetClearsHistoryOnly ==
    [][/\ reset_pressed'
          => /\ ~crashed'
             /\ pc' = "Idle"
             /\ conversation_history' = <<>>
             /\ search_results_cache' = search_results_cache
       /\ (reset_pressed /\ pc' = "AwaitingModel")
          => /\ Len(conversation_history') = 1
             /\ IsTextTurn(conversation_history'[1], "user", user_query')]_vars

\* a reset that emptied the history of an assistant whose cache holds an entry
C9_Witness ==
    /\ reset_pressed /\ "assistant" \in session_keys
    /\ DOMAIN search_results_cache # {}
    /\ conversation_history = <<>>

\* C10: a run of the script that finds a credential absent constructs no
\* assistant and starts no query, and issues no model or search call.
C10_NoCallsWithoutKeys ==
    [][(anthropic_api_key' = "" \/ brave_api_key' = "")
          => /\ session_keys' = session_keys
             /\ pc' = "Idle"
             /\ modelCalls' = modelCalls
             /\ searchCalls' = searchCalls
             /\ netCalls' = netCalls]_vars

\* the reset button pressed while one key is absent and an assistant exists
C10_Witness ==
    /\ anthropic_api_key = "" /\ brave_api_key # ""
    /\ reset_pressed /\ "assistant" \in session_keys


\* the first position i >= k at which pat stands in s (0: nowhere)
Find(s, pat, k) ==
    LET hits == { i \in k..(Len(s) - Len(pat) + 1) : SubSeq(s, i, i + Len(pat) - 1) = pat }
    IN  IF hits = {} THEN 0 ELSE CHOOSE i \in hits : \A j \in hits : i <= j

\* the numbered entries read back from a rendering s, from position k on
RECURSIVE ParseEntries(_, _)
ParseEntries(s, k) ==
    IF k > Len(s) THEN <<>>
    ELSE LET a == Find(s, ". **", k)
             b == IF a = 0 THEN 0 ELSE Find(s, "**\n   URL: ", a + 4)
             c == IF b = 0 THEN 0 ELSE Find(s, "\n   ", b + 11)
             d == IF c = 0 THEN 0 ELSE Find(s, "\n\n", c + 4)
         IN  IF d = 0 THEN << [num |-> "?", title |-> "?", url |-> "?", description |-> "?"] >>
             ELSE << [num |-> SubSeq(s, k, a - 1),
                      title |-> SubSeq(s, a + 4, b - 1),
                      url |-> SubSeq(s, b + 11, c - 1),
                      description |-> SubSeq(s, c + 4, d - 1)] >>
                  \o ParseEntries(s, d + 2)

\* C11: format_search_results returns the sentinel for the empty list; for
\* n > 0 items the rendering read back has exactly n entries, numbered 1..n
\* in input order, the i-th carrying the i-th item's title, URL and
\* description.
C11_FormatNumbersEveryItem ==
    (call.fn = "format_search_results" /\ returned.done)
    => LET rs == call.results
           header == "### Search Results:\n\n"
       IN  IF rs = <<>> THEN returned.value = "No search results found."
           ELSE /\ SubSeq(returned.value, 1, Len(header)) = header
                /\ ParseEntries(returned.value, Len(header) + 1)
                   = [i \in 1..Len(rs) |->
                        [num |-> ToString(i), title |-> rs[i].title, url |-> rs[i].url,
                         description |-> rs[i].description]]

\* a rendering of three items, the second unlike the first
C11_Witness ==
    /\ call.fn = "format_search_results" /\ returned.done
    /\ Len(call.results) = 3 /\ call.results[1] # call.results[2]

\* C12: for count >= 1 the list web_search returns is a prefix of the
\* provider's list, item by item with the defaults for missing fields, and
\* has at most count records.
C12_ResultsArePrefix ==
    (call.fn = "web_search" /\ returned.done /\ call.num_results >= 1)
    => LET l == IF call.p.kind = "json" /\ "web" \in DOMAIN call.p.body
                THEN call.p.body.web.results ELSE <<>>
           v == returned.value
       IN  /\ Len(v) <= call.num_results
           /\ Len(v) <= Len(l)
           /\ \A i \in 1..Len(v) :
                  /\ v[i].title = (IF "title" \in DOMAIN l[i] THEN l[i].title ELSE "")
                  /\ v[i].url = (IF "url" \in DOMAIN l[i] THEN l[i].url ELSE "")
                  /\ v[i].description
                       = (IF "description" \in DOMAIN l[i] THEN l[i].description ELSE "")

\* a provider list of three items cut to two
C12_Witness ==
    /\ call.fn = "web_search" /\ returned.done /\ call.num_results = 2
    /\ call.p.kind = "json" /\ "web" \in DOMAIN call.p.body
    /\ Len(call.p.body.web.results) = 3 /\ Len(returned.value) = 2
    /\ call.p.body.web.results[1] # call.p.body.web.results[3]


\* the first tool_use block of a content list, whatever its name (0: none)
RECURSIVE FirstToolUse(_, _)
FirstToolUse(content, i) ==
    IF i > Len(content) THEN 0
    ELSE IF content[i].type = "tool_use" THEN i
    ELSE FirstToolUse(content, i + 1)

\* the identifiers of the tool_use blocks of a content list
ToolUseIds(content) ==
    { content[i].id : i \in { j \in 1..Len(content) : content[j].type = "tool_use" } }

\* the turns the invocation under way has appended after the user's query
OwnTurns ==
    IF pc = "Idle" THEN <<>>
    ELSE SubSeq(conversation_history, histStart + 2, Len(conversation_history))

\* the tool pairs among the turns appended since the query: positions of
\* their tool_use turns
OwnToolUseTurns ==
    { i \in 1..Len(OwnTurns) : BlocksOf(OwnTurns[i], "tool_use") # {} }

\* C13: of a response with stop reason tool_use only the first tool-use
\* block is acted on: the response adds at most one search and one
\* (tool_use, tool_result) pair, and the pair is that of the first tool-use
\* block of the content list.
C13_FirstToolUseBlockActedOn ==
    (pc # "Idle" /\ response.stop_reason = "tool_use" /\ raised = "none")
    => LET f == FirstToolUse(response.content, 1)
           mine == { i \in OwnToolUseTurns :
                       OwnTurns[i].content[1].id \in ToolUseIds(response.content) }
       IN  /\ Cardinality(mine) <= 1
           /\ searchCalls <= Cardinality(OwnToolUseTurns)
           /\ \A i \in mine :
                  /\ OwnTurns[i].content = << response.content[f] >>
                  /\ i < Len(OwnTurns)
                  /\ IsToolPair(OwnTurns[i], OwnTurns[i + 1])

\* C14: when the tool the response asks for (its first tool-use block) is not
\* web_search, no search is dispatched, no tool_use or tool_result turn is
\* appended, no further model call follows, and the invocation returns the
\* text of that same response.
C14_UnrecognizedToolEndsLoop ==
    (pc # "Idle" /\ response.stop_reason = "tool_use" /\ raised = "none"
       /\ FirstToolUse(response.content, 1) # 0
       /\ response.content[FirstToolUse(response.content, 1)].name # "web_search")
    => /\ lastSearch = NoSearch
       /\ \A i \in OwnToolUseTurns :
              OwnTurns[i].content[1].id \notin ToolUseIds(response.content)
       /\ pc = "Terminated"
       /\ result = ConcatTexts(response.content)


\* C15: when process_research_query ends without failure, the value returned
\* is the text blocks of the last response concatenated in order; the history
\* ends with an assistant turn holding that text exactly when the text is
\* non-empty, and gains no final turn when it is empty.
C15_FinalTextReturnedAndAppended ==
    (pc = "Terminated" /\ raised = "none")
    => /\ result = ConcatTexts(response.content)
       /\ IF result # ""
          THEN /\ Len(OwnTurns) = 2 * Cardinality(OwnToolUseTurns) + 1
               /\ IsTextTurn(OwnTurns[Len(OwnTurns)], "assistant", result)
          ELSE Len(OwnTurns) = 2 * Cardinality(OwnToolUseTurns)

\* an invocation that ended on a response of two text blocks after a search
C15_Witness ==
    /\ pc = "Terminated" /\ raised = "none"
    /\ Len(response.content) = 2 /\ result = "AB" /\ searchCalls = 1


\* C16: if every model call and every search returns or fails, an invocation
\* of process_research_query that is waiting for the model reaches Terminated,
\* and from there returns its string to the script, which stores it as the
\* assistant's message.
C16_InvocationTerminates ==
    /\ (pc = "AwaitingModel") ~> (pc = "Terminated")
    /\ (pc = "Terminated")
         ~> (pc = "Idle" /\ Len(messages) = 2 /\ messages[2].role = "assistant")

\* an invocation whose every response asked for a search has returned
C16_Witness ==
    /\ pc = "Idle" /\ Len(messages) = 2
    /\ toolTurns = max_iterations


\* C17: a failed search is never cached: after a failure the pair has no
\* cache entry, a pair all of whose network calls failed is absent from the
\* cache (so its next lookup is not served from the cache), and a cached pair
\* was fetched successfully exactly once, an empty result set included: what
\* a successful fetch returned, empty or not, is what the cache holds.
C17_FailedSearchNotCached ==
    /\ lastSearch.outcome = "error"
         => /\ lastSearch.key \notin DOMAIN search_results_cache
            /\ lastSearch.results = <<>>
    /\ lastSearch.outcome = "ok"
         => /\ lastSearch.key \in DOMAIN search_results_cache
            /\ search_results_cache[lastSearch.key] = lastSearch.results
    /\ lastSearch.outcome = "hit"
         => /\ lastSearch.key \in DOMAIN search_results_cache
            /\ Get(okCalls, lastSearch.key, 0) = 1
    /\ \A k \in DOMAIN netCalls :
           IF k \in DOMAIN search_results_cache
           THEN Get(okCalls, k, 0) = 1
           ELSE Get(okCalls, k, 0) = 0 /\ netCalls[k] >= 1

\* a pair whose first lookup failed and whose second fetched results
C17_Witness ==
    \E k \in DOMAIN search_results_cache :
        netCalls[k] = 2 /\ search_results_cache[k] # <<>> /\ lastSearch.key = k


\* an answer stored by the script that is the message of a caught exception
IsErrorMsg(c) == \E kind \in ErrorKinds : IsPrefix(ErrorMsg(kind, ""), c)

\* every query since the last reset (the reset empties `messages` together
\* with the history) ended without failure and with non-empty text
AllQueriesAnswered ==
    \A i \in 1..Len(messages) :
        messages[i].role = "assistant"
          => messages[i].content # "" /\ ~IsErrorMsg(messages[i].content)

\* C18: between queries, when every query since the last reset ended without
\* failure and with non-empty final text, the history starts with a user
\* turn, ends with an assistant turn, and no two consecutive turns have the
\* same role.
C18_RolesAlternate ==
    (pc = "Idle" /\ AllQueriesAnswered)
    => LET h == conversation_history IN
       /\ h # <<>> => h[1].role = "user" /\ h[Len(h)].role = "assistant"
       /\ \A i \in 1..(Len(h) - 1) : h[i].role # h[i + 1].role

\* two answered queries, one of them with a search, and no reset in between
C18_Witness ==
    /\ pc = "Idle" /\ AllQueriesAnswered
    /\ Len(messages) = 4 /\ Len(conversation_history) = 6


\* C19: within an invocation a search is dispatched only for a response with
\* stop reason tool_use, so searches <= model calls <= 5; and a web_search
\* request in the 5th response is still executed: the search is dispatched
\* and its tool_use/tool_result pair appended, though the invocation ends
\* without another model call.
C19_SearchesWithinModelCalls ==
    pc # "Idle"
    => /\ searchCalls <= modelCalls /\ modelCalls <= 5
       /\ lastSearch # NoSearch => response.stop_reason = "tool_use"
       /\ (/\ modelCalls = 5 /\ raised = "none" /\ response.stop_reason = "tool_use"
           /\ \E j \in 1..Len(response.content) :
                  /\ response.content[j].type = "tool_use"
                  /\ response.content[j].name = "web_search")
          => /\ pc = "Terminated"
             /\ lastSearch.outcome \in {"hit", "ok", "error"}
             /\ searchCalls >= 1
             /\ \E i \in OwnToolUseTurns :
                    /\ OwnTurns[i].content[1].id \in ToolUseIds(response.content)
                    /\ i < Len(OwnTurns)
                    /\ IsToolPair(OwnTurns[i], OwnTurns[i + 1])

\* five searches in five iterations, the last one fetched from the provider
C19_Witness ==
    /\ pc = "Terminated" /\ modelCalls = 5 /\ searchCalls = 5
    /\ lastSearch.outcome = "ok" /\ Cardinality(OwnToolUseTurns) = 5
    /\ result = ""


====
